---- MODULE Spec2Model ----
(***************************************************************************)
(* State-machine model of the KareraPlatform contract (src/lib.rs): race   *)
(* lifecycle (create_race, start_race, update_race, finish_race) and the   *)
(* pari-mutuel ledger (place_bet, claim_winnings).  Storage writes are     *)
(* modelled as the message bodies perform them, in program order; the      *)
(* host's block number, block timestamp, caller, transferred value and     *)
(* transfer outcome are environment inputs.                                *)
(***************************************************************************)
EXTENDS Integers, Sequences, FiniteSets, TLC

\* ------------------------------------------------------------- constants
RACE_DURATION_BLOCKS == 100
HORSES_PER_RACE == 6
TOTAL_RACES == 5
FINISH_LINE == 1000

\* LCG multiplier and increment of pseudo_random
LCG_A == 1664525
LCG_C == 1013904223

\* ---------------------------------------------------------------- bounds
\* races created in Spec (below the cap TOTAL_RACES)
MaxRaces == 2
\* largest block number the environment reaches
MaxBlock == 100
\* bets accepted over all bettors and races
MaxBets == 3
\* bits of a Balance in the model (u128 in the contract)
BalanceBits == 8
\* milliseconds the block timestamp advances per block
MsPerBlock == 6000

Accounts == {"owner", "alice"}
\* race ids passed to the messages (an id is unknown until its race is created)
RaceArgs == {0, 1}
\* horse ids passed to place_bet
HorseArgs == {0, 1}
\* values attached to place_bet
AmountArgs == {1}
\* block advances of the environment
TickSteps == {RACE_DURATION_BLOCKS \div 2}

VARIABLES owner, races, current_race_id, horses, bet_count, bets, total_pool,
          horse_pools, payouts_claimed, block_number, block_timestamp,
          last, paid

storage == <<owner, races, current_race_id, horses, bet_count, bets,
             total_pool, horse_pools, payouts_claimed>>
env == <<block_number, block_timestamp>>
vars == <<owner, races, current_race_id, horses, bet_count, bets, total_pool,
          horse_pools, payouts_claimed, block_number, block_timestamp,
          last, paid>>

\* ----------------------------------------------------- Mapping and Option
EmptyMapping == [k \in {} |-> 0]
Contains(m, k) == k \in DOMAIN m
Get(m, k, default) == IF k \in DOMAIN m THEN m[k] ELSE default
Insert(m, k, v) == [x \in (DOMAIN m) \cup {k} |-> IF x = k THEN v ELSE m[x]]

None == <<>>
Some(x) == <<x>>
IsSome(o) == Len(o) = 1
Unwrap(o) == o[1]

\* --------------------------------------------------- Balance arithmetic
\* +, * and += on Balance: in a build without overflow checks the result is
\* taken modulo 2^BalanceBits; in a build with them the call panics when
\* Overflows holds of the exact result
BalanceModulus == 2 ^ BalanceBits
BalanceMax == BalanceModulus - 1
WrapBalance(x) == x % BalanceModulus
Overflows(x) == x > BalanceMax

\* ------------------------------------------------------- u32 arithmetic
\* A u32 is held as two 16-bit halves <<low, high>>, so that every intermediate
\* value stays below 2^31.
Half == 65536

ToHalves(n) == <<n % Half, (n \div Half) % Half>>

RECURSIVE XorBits(_, _, _)
XorBits(a, b, bits) ==
  IF bits = 0 THEN 0
  ELSE ((a + b) % 2) + 2 * XorBits(a \div 2, b \div 2, bits - 1)

\* bitwise xor of two 4-bit values and of two bytes, tabulated
XorNibble == [a \in 0..15 |-> [b \in 0..15 |-> XorBits(a, b, 4)]]
XorByte ==
  [a \in 0..255 |-> [b \in 0..255 |->
     XorNibble[a \div 16][b \div 16] * 16 + XorNibble[a % 16][b % 16]]]

Xor16(a, b) == XorByte[a \div 256][b \div 256] * 256 + XorByte[a % 256][b % 256]

Xor32(x, y) == <<Xor16(x[1], y[1]), Xor16(x[2], y[2])>>

\* a.wrapping_mul(h) for a = LCG_A: the product modulo 2^32, by halves
\* (a's halves are 26125 and 25, so every partial product is below 2^31)
WrappingMul(a, h) ==
  LET low == a[1] * h[1]
      mid == a[2] * h[1] + a[1] * h[2] + (low \div Half)
  IN  <<low % Half, mid % Half>>

WrappingAdd(x, y) ==
  LET low == x[1] + y[1]
  IN  <<low % Half, (x[2] + y[2] + (low \div Half)) % Half>>

\* value of a u32 modulo m, for m up to 2^15
HalvesMod(x, m) == (((x[2] % m) * (Half % m)) + x[1]) % m

LcgA == ToHalves(LCG_A)
LcgC == ToHalves(LCG_C)

\* pseudo_random(seed, block): LCG step on timestamp ^ block ^ seed, % 100
pseudo_random(timestamp, seed, block) ==
  LET hash == Xor32(Xor32(ToHalves(timestamp), ToHalves(block)), ToHalves(seed))
  IN  HalvesMod(WrappingAdd(WrappingMul(LcgA, hash), LcgC), 100)

\* the acceleration taken modulo 22 instead of 21
Acceleration_Mod22(timestamp, id, block) == (pseudo_random(timestamp, id, block) % 22) + 15

Acceleration(timestamp, id, block) == (pseudo_random(timestamp, id, block) % 21) + 15

\* -------------------------------------------------------------------- new
\* the transfers requested of the host for one (caller, race)
NoPaid == [returned |-> 0, requests |-> 0, received |-> 0, failed |-> 0]

\* the last message call, recorded by SpecCalls only
NoCaller == "-"
NoArg == 0 - 1
Call(op, caller, race_id, horse_id, amount, result) ==
  [op |-> op, caller |-> caller, race_id |-> race_id, horse_id |-> horse_id,
   amount |-> amount, result |-> result]

Init ==
  /\ owner = "owner"
  /\ races = EmptyMapping
  /\ current_race_id = 0
  /\ horses = EmptyMapping
  /\ bet_count = EmptyMapping
  /\ bets = EmptyMapping
  /\ total_pool = EmptyMapping
  /\ horse_pools = EmptyMapping
  /\ payouts_claimed = EmptyMapping
  /\ block_number = 0
  /\ block_timestamp = 0
  /\ last = Call("new", "owner", NoArg, NoArg, 0, "Ok")
  /\ paid = EmptyMapping

\* ----------------------------------------------------------- create_race
NewHorse(i) == [id |-> i, position |-> 0, finished |-> FALSE, finish_time |-> None]

RECURSIVE InitHorses(_, _, _)
InitHorses(hs, race_id, i) ==
  IF i >= HORSES_PER_RACE THEN hs
  ELSE InitHorses(Insert(hs, <<race_id, i>>, NewHorse(i)), race_id, i + 1)

NewRace(race_id) ==
  [id |-> race_id, status |-> "Pending", start_block |-> 0, current_block |-> 0,
   winner |-> None, rankings |-> <<>>]

\* create_race refusing only once the counter is above the cap
create_race_CapOffByOne ==
  IF current_race_id > TOTAL_RACES
  THEN [result |-> "MaxRacesReached", value |-> 0, horses |-> horses,
        races |-> races, current_race_id |-> current_race_id]
  ELSE [result |-> "Ok", value |-> current_race_id,
        horses |-> InitHorses(horses, current_race_id, 0),
        races |-> Insert(races, current_race_id, NewRace(current_race_id)),
        current_race_id |-> current_race_id + 1]

\* create_race: its return and the storage it leaves
create_race ==
  IF current_race_id >= TOTAL_RACES
  THEN [result |-> "MaxRacesReached", value |-> 0, horses |-> horses,
        races |-> races, current_race_id |-> current_race_id]
  ELSE [result |-> "Ok", value |-> current_race_id,
        horses |-> InitHorses(horses, current_race_id, 0),
        races |-> Insert(races, current_race_id, NewRace(current_race_id)),
        current_race_id |-> current_race_id + 1]

CreateRace ==
  LET out == create_race
  IN  /\ horses' = out.horses
      /\ races' = out.races
      /\ current_race_id' = out.current_race_id
      /\ UNCHANGED <<owner, bet_count, bets, total_pool, horse_pools,
                 payouts_claimed, env, paid>>

\* ------------------------------------------------------------ start_race
\* start_race without the check that the race is still Pending
start_race_NoStatusCheck(caller, race_id) ==
  IF caller # owner THEN [result |-> "Unauthorized", races |-> races]
  ELSE IF ~Contains(races, race_id) THEN [result |-> "RaceNotFound", races |-> races]
  ELSE [result |-> "Ok",
        races |-> Insert(races, race_id,
                    [races[race_id] EXCEPT !.status = "Active",
                                           !.start_block = block_number,
                                           !.current_block = block_number])]

\* start_race refusing a race only while it is Active
start_race_RefusesActiveOnly(caller, race_id) ==
  IF caller # owner THEN [result |-> "Unauthorized", races |-> races]
  ELSE IF ~Contains(races, race_id) THEN [result |-> "RaceNotFound", races |-> races]
  ELSE IF races[race_id].status = "Active"
       THEN [result |-> "RaceAlreadyStarted", races |-> races]
  ELSE [result |-> "Ok",
        races |-> Insert(races, race_id,
                    [races[race_id] EXCEPT !.status = "Active",
                                           !.start_block = block_number,
                                           !.current_block = block_number])]

\* start_race looking the race up before it checks the caller
start_race_LookupFirst(caller, race_id) ==
  IF ~Contains(races, race_id) THEN [result |-> "RaceNotFound", races |-> races]
  ELSE IF races[race_id].status # "Pending"
       THEN [result |-> "RaceAlreadyStarted", races |-> races]
  ELSE IF caller # owner THEN [result |-> "Unauthorized", races |-> races]
  ELSE [result |-> "Ok",
        races |-> Insert(races, race_id,
                    [races[race_id] EXCEPT !.status = "Active",
                                           !.start_block = block_number,
                                           !.current_block = block_number])]

start_race(caller, race_id) ==
  IF caller # owner THEN [result |-> "Unauthorized", races |-> races]
  ELSE IF ~Contains(races, race_id) THEN [result |-> "RaceNotFound", races |-> races]
  ELSE IF races[race_id].status # "Pending"
       THEN [result |-> "RaceAlreadyStarted", races |-> races]
  ELSE [result |-> "Ok",
        races |-> Insert(races, race_id,
                    [races[race_id] EXCEPT !.status = "Active",
                                           !.start_block = block_number,
                                           !.current_block = block_number])]

StartRace(caller, race_id) ==
  /\ races' = start_race(caller, race_id).races
  /\ UNCHANGED <<owner, current_race_id, horses, bet_count, bets, total_pool,
                 horse_pools, payouts_claimed, env, paid>>

\* ----------------------------------------------------------- finish_race
\* Ordering of Option<u32>: None before Some, Some by value
OptionCmp(a, b) ==
  IF ~IsSome(a) THEN (IF IsSome(b) THEN "Less" ELSE "Equal")
  ELSE IF ~IsSome(b) THEN "Greater"
  ELSE IF Unwrap(a) < Unwrap(b) THEN "Less"
  ELSE IF Unwrap(a) > Unwrap(b) THEN "Greater"
  ELSE "Equal"

NatCmp(a, b) == IF a < b THEN "Less" ELSE IF a > b THEN "Greater" ELSE "Equal"

\* the closure given to sort_by
HorseCmp(a, b) ==
  IF a.finished /\ b.finished THEN OptionCmp(a.finish_time, b.finish_time)
  ELSE IF a.finished /\ ~b.finished THEN "Less"
  ELSE IF ~a.finished /\ b.finished THEN "Greater"
  ELSE NatCmp(b.position, a.position)

\* insertion that does not keep equal elements in their original order
RECURSIVE InsertSorted_Unstable(_, _)
InsertSorted_Unstable(sorted, h) ==
  IF sorted = <<>> THEN <<h>>
  ELSE IF HorseCmp(h, sorted[Len(sorted)]) # "Greater"
       THEN Append(InsertSorted_Unstable(SubSeq(sorted, 1, Len(sorted) - 1), h),
                   sorted[Len(sorted)])
       ELSE Append(sorted, h)

\* stable insertion of h into a sorted sequence: after every element not Greater
RECURSIVE InsertSorted(_, _)
InsertSorted(sorted, h) ==
  IF sorted = <<>> THEN <<h>>
  ELSE IF HorseCmp(h, sorted[Len(sorted)]) = "Less"
       THEN Append(InsertSorted(SubSeq(sorted, 1, Len(sorted) - 1), h), sorted[Len(sorted)])
       ELSE Append(sorted, h)

\* sort_by is a stable sort
RECURSIVE SortBy(_)
SortBy(v) ==
  IF v = <<>> THEN <<>>
  ELSE InsertSorted(SortBy(SubSeq(v, 1, Len(v) - 1)), v[Len(v)])

RECURSIVE CollectHorses(_, _, _)
CollectHorses(hs, race_id, i) ==
  IF i >= HORSES_PER_RACE THEN <<>>
  ELSE IF Contains(hs, <<race_id, i>>)
       THEN <<hs[<<race_id, i>>]>> \o CollectHorses(hs, race_id, i + 1)
       ELSE CollectHorses(hs, race_id, i + 1)

\* the rankings rebuilt without rankings.clear()
FinalRankings_NoClear(old, horses_vec) ==
  old \o [k \in 1..Len(horses_vec) |-> horses_vec[k].id]

\* rankings.clear() followed by the push of every sorted horse's id
FinalRankings(old, horses_vec) == [k \in 1..Len(horses_vec) |-> horses_vec[k].id]

\* finish_race on storage (rs, hs): its result and the races mapping it leaves
finish_race(rs, hs, race_id) ==
  IF ~Contains(rs, race_id) THEN [result |-> "RaceNotFound", races |-> rs]
  ELSE IF rs[race_id].status # "Active" THEN [result |-> "RaceNotActive", races |-> rs]
  ELSE LET horses_vec == SortBy(CollectHorses(hs, race_id, 0))
           rankings == FinalRankings(rs[race_id].rankings, horses_vec)
           race == [rs[race_id] EXCEPT !.rankings = rankings,
                                       !.winner = Some(rankings[1]),
                                       !.status = "Finished"]
       IN  [result |-> "Ok", races |-> Insert(rs, race_id, race)]

\* ----------------------------------------------------------- update_race
\* the step without the clamp of the position to the finish line
StepHorse_NoClamp(horse, blocks_elapsed) ==
  LET acceleration == Acceleration(block_timestamp, horse.id, block_number)
      position == horse.position + acceleration
  IN  IF position >= FINISH_LINE
      THEN [horse EXCEPT !.position = position, !.finished = TRUE,
                         !.finish_time = Some(blocks_elapsed)]
      ELSE [horse EXCEPT !.position = position]

\* one horse of the loop: the horse record after its step
StepHorse(horse, blocks_elapsed) ==
  LET acceleration == Acceleration(block_timestamp, horse.id, block_number)
      position == horse.position + acceleration
  IN  IF position >= FINISH_LINE
      THEN [horse EXCEPT !.position = FINISH_LINE, !.finished = TRUE,
                         !.finish_time = Some(blocks_elapsed)]
      ELSE [horse EXCEPT !.position = position]

\* the loop body pushing the horse's id on every step, finished or not
LoopBody_PushAlways(st, race_id, i, blocks_elapsed) ==
  IF Contains(st.horses, <<race_id, i>>) /\ ~st.horses[<<race_id, i>>].finished
  THEN LET horse == StepHorse(st.horses[<<race_id, i>>], blocks_elapsed)
       IN  [horses |-> Insert(st.horses, <<race_id, i>>, horse),
            rankings |-> Append(st.rankings, horse.id),
            all_finished |-> st.all_finished /\ horse.finished]
  ELSE st

\* the loop body for horse i on the loop state st = [horses, rankings,
\* all_finished]: a horse that is missing or finished is skipped
LoopBody(st, race_id, i, blocks_elapsed) ==
  IF Contains(st.horses, <<race_id, i>>) /\ ~st.horses[<<race_id, i>>].finished
  THEN LET horse == StepHorse(st.horses[<<race_id, i>>], blocks_elapsed)
       IN  [horses |-> Insert(st.horses, <<race_id, i>>, horse),
            rankings |-> IF horse.finished THEN Append(st.rankings, horse.id)
                                           ELSE st.rankings,
            all_finished |-> st.all_finished /\ horse.finished]
  ELSE st

\* the loop over 0..HORSES_PER_RACE from index i on
RECURSIVE UpdateLoop(_, _, _, _)
UpdateLoop(i, race_id, blocks_elapsed, st) ==
  IF i >= HORSES_PER_RACE THEN st
  ELSE UpdateLoop(i + 1, race_id, blocks_elapsed,
                  LoopBody(st, race_id, i, blocks_elapsed))

\* update_race without the finish_race call once every horse has crossed
update_race_NoFinishAllCrossed(race_id) ==
  IF ~Contains(races, race_id)
  THEN [result |-> "RaceNotFound", races |-> races, horses |-> horses]
  ELSE IF races[race_id].status # "Active"
  THEN [result |-> "RaceNotActive", races |-> races, horses |-> horses]
  ELSE LET race == races[race_id]
           blocks_elapsed == block_number - race.start_block
       IN  IF blocks_elapsed >= RACE_DURATION_BLOCKS
           THEN LET fin == finish_race(races, horses, race_id)
                IN  [result |-> fin.result, races |-> fin.races, horses |-> horses]
           ELSE LET loop == UpdateLoop(0, race_id, blocks_elapsed,
                                       [horses |-> horses, rankings |-> race.rankings,
                                        all_finished |-> TRUE])
                    stored == Insert(races, race_id,
                                [race EXCEPT !.rankings = loop.rankings,
                                             !.current_block = block_number])
                IN  [result |-> "Ok", races |-> stored, horses |-> loop.horses]

\* update_race running the progression loop before it tests the time limit
update_race_MoveThenFinish(race_id) ==
  IF ~Contains(races, race_id)
  THEN [result |-> "RaceNotFound", races |-> races, horses |-> horses]
  ELSE IF races[race_id].status # "Active"
  THEN [result |-> "RaceNotActive", races |-> races, horses |-> horses]
  ELSE LET race == races[race_id]
           blocks_elapsed == block_number - race.start_block
           loop == UpdateLoop(0, race_id, blocks_elapsed,
                              [horses |-> horses, rankings |-> race.rankings,
                               all_finished |-> TRUE])
           stored == Insert(races, race_id,
                       [race EXCEPT !.rankings = loop.rankings,
                                    !.current_block = block_number])
           fin == IF loop.all_finished \/ blocks_elapsed >= RACE_DURATION_BLOCKS
                  THEN finish_race(stored, loop.horses, race_id)
                  ELSE [result |-> "Ok", races |-> stored]
       IN  [result |-> fin.result, races |-> fin.races, horses |-> loop.horses]

\* update_race: its return and the storage it leaves
update_race(race_id) ==
  IF ~Contains(races, race_id)
  THEN [result |-> "RaceNotFound", races |-> races, horses |-> horses]
  ELSE IF races[race_id].status # "Active"
  THEN [result |-> "RaceNotActive", races |-> races, horses |-> horses]
  ELSE LET race == races[race_id]
           blocks_elapsed == block_number - race.start_block
       IN  IF blocks_elapsed >= RACE_DURATION_BLOCKS
           THEN LET fin == finish_race(races, horses, race_id)
                IN  [result |-> fin.result, races |-> fin.races, horses |-> horses]
           ELSE LET loop == UpdateLoop(0, race_id, blocks_elapsed,
                                       [horses |-> horses, rankings |-> race.rankings,
                                        all_finished |-> TRUE])
                    stored == Insert(races, race_id,
                                [race EXCEPT !.rankings = loop.rankings,
                                             !.current_block = block_number])
                    fin == IF loop.all_finished
                           THEN finish_race(stored, loop.horses, race_id)
                           ELSE [result |-> "Ok", races |-> stored]
                IN  [result |-> fin.result, races |-> fin.races,
                     horses |-> loop.horses]

UpdateRace(race_id) ==
  LET out == update_race(race_id)
  IN  /\ races' = out.races
      /\ horses' = out.horses
      /\ UNCHANGED <<owner, current_race_id, bet_count, bets, total_pool,
                 horse_pools, payouts_claimed, env, paid>>

\* ------------------------------------------------------------- place_bet
\* the checks with the horse id validated before the race status
PlaceBetChecks_HorseFirst(race_id, horse_id, amount) ==
  IF ~Contains(races, race_id) THEN "RaceNotFound"
  ELSE IF horse_id >= HORSES_PER_RACE THEN "InvalidHorse"
  ELSE IF races[race_id].status # "Pending" THEN "BettingClosed"
  ELSE IF amount = 0 THEN "InvalidBetAmount"
  ELSE "Ok"

PlaceBetChecks(race_id, horse_id, amount) ==
  IF ~Contains(races, race_id) THEN "RaceNotFound"
  ELSE IF races[race_id].status # "Pending" THEN "BettingClosed"
  ELSE IF horse_id >= HORSES_PER_RACE THEN "InvalidHorse"
  ELSE IF amount = 0 THEN "InvalidBetAmount"
  ELSE "Ok"

\* the horse pool written without adding the pool's previous value
HorsePoolInsert_Overwrite(race_id, horse_id, amount) ==
  Insert(horse_pools, <<race_id, horse_id>>, amount)

HorsePoolInsert(race_id, horse_id, amount) ==
  LET horse_total == Get(horse_pools, <<race_id, horse_id>>, 0)
  IN  Insert(horse_pools, <<race_id, horse_id>>, WrapBalance(horse_total + amount))

\* the bet stored and counted (lines 310-313)
StoreBet(bettor, race_id, horse_id, amount) ==
  LET bet == [bettor |-> bettor, race_id |-> race_id,
              horse_id |-> horse_id, amount |-> amount]
      count == Get(bet_count, <<bettor, race_id>>, 0)
  IN  [bets |-> Insert(bets, <<bettor, race_id, count>>, bet),
       bet_count |-> Insert(bet_count, <<bettor, race_id>>, count + 1)]

\* place_bet storing the bet before it checks the attached value
place_bet_StoreBeforeAmountCheck(bettor, race_id, horse_id, amount) ==
  LET checks == PlaceBetChecks(race_id, horse_id, amount)
      stored == StoreBet(bettor, race_id, horse_id, amount)
      total == Get(total_pool, race_id, 0)
  IN  IF checks = "InvalidBetAmount"
      THEN [result |-> checks, bets |-> stored.bets, bet_count |-> stored.bet_count,
            total_pool |-> total_pool, horse_pools |-> horse_pools]
      ELSE IF checks # "Ok"
      THEN [result |-> checks, bets |-> bets, bet_count |-> bet_count,
            total_pool |-> total_pool, horse_pools |-> horse_pools]
      ELSE [result |-> "Ok", bets |-> stored.bets, bet_count |-> stored.bet_count,
            total_pool |-> Insert(total_pool, race_id, WrapBalance(total + amount)),
            horse_pools |-> HorsePoolInsert(race_id, horse_id, amount)]

\* place_bet: its return and the storage it leaves (in a build without
\* overflow checks, should an addition overflow)
place_bet(bettor, race_id, horse_id, amount) ==
  LET checks == PlaceBetChecks(race_id, horse_id, amount)
      stored == StoreBet(bettor, race_id, horse_id, amount)
      total == Get(total_pool, race_id, 0)
  IN  IF checks # "Ok"
      THEN [result |-> checks, bets |-> bets, bet_count |-> bet_count,
            total_pool |-> total_pool, horse_pools |-> horse_pools]
      ELSE [result |-> "Ok", bets |-> stored.bets, bet_count |-> stored.bet_count,
            total_pool |-> Insert(total_pool, race_id, WrapBalance(total + amount)),
            horse_pools |-> HorsePoolInsert(race_id, horse_id, amount)]

PlaceBet(bettor, race_id, horse_id, amount) ==
  LET out == place_bet(bettor, race_id, horse_id, amount)
  IN  /\ bets' = out.bets
      /\ bet_count' = out.bet_count
      /\ total_pool' = out.total_pool
      /\ horse_pools' = out.horse_pools
      /\ UNCHANGED <<owner, races, current_race_id, horses, payouts_claimed, env, paid>>

\* -------------------------------------------------------- claim_winnings
\* the claim record never read as set
AlreadyClaimed_Never(caller, race_id) == FALSE

\* payouts_claimed.get((caller, race_id)).unwrap_or(false)
AlreadyClaimed(caller, race_id) == Get(payouts_claimed, <<caller, race_id>>, FALSE)

\* every bet of the caller counted, whatever its horse
CountsForWinner_AnyHorse(bet, winner_horse) == TRUE

\* bet.horse_id == winner_horse
CountsForWinner(bet, winner_horse) == bet.horse_id = winner_horse

\* the loop over the caller's bets 0..bet_count, summing those on the winner
RECURSIVE SumWinningBets(_, _, _, _, _)
SumWinningBets(caller, race_id, winner_horse, i, n) ==
  IF i >= n THEN 0
  ELSE (IF /\ Contains(bets, <<caller, race_id, i>>)
           /\ CountsForWinner(bets[<<caller, race_id, i>>], winner_horse)
        THEN bets[<<caller, race_id, i>>].amount
        ELSE 0)
       + SumWinningBets(caller, race_id, winner_horse, i + 1, n)

\* the share divided before it is multiplied by the pool
PayoutOf_DivideFirst(total_bet, pool, winning_pool) ==
  WrapBalance((total_bet \div winning_pool) * pool)

\* (total_bet * total_pool) / winning_pool
PayoutOf(total_bet, pool, winning_pool) ==
  WrapBalance(total_bet * pool) \div winning_pool

\* the claim record set only once the transfer has succeeded
MarkClaimed_AfterTransfer(caller, race_id, transfer_ok) ==
  IF transfer_ok THEN Insert(payouts_claimed, <<caller, race_id>>, TRUE)
  ELSE payouts_claimed

\* payouts_claimed.insert((caller, race_id), &true), before the transfer
MarkClaimed(caller, race_id, transfer_ok) ==
  Insert(payouts_claimed, <<caller, race_id>>, TRUE)

\* claim_winnings: its return, the claim records it leaves and the transfer
\* it requests of the host (None when it requests none) in a build without
\* overflow checks, and whether its sum or its product overflows
claim_winnings(caller, race_id, transfer_ok) ==
  LET Err(e) == [result |-> e, value |-> 0, payouts_claimed |-> payouts_claimed,
                 transfer |-> None, overflow |-> FALSE]
  IN  IF ~Contains(races, race_id) THEN Err("RaceNotFound")
      ELSE IF races[race_id].status # "Finished" THEN Err("RaceNotFinished")
      ELSE IF AlreadyClaimed(caller, race_id) THEN Err("AlreadyClaimed")
      ELSE IF ~IsSome(races[race_id].winner) THEN Err("NoWinner")
      ELSE LET winner_horse == Unwrap(races[race_id].winner)
               sum == SumWinningBets(caller, race_id, winner_horse, 0,
                                     Get(bet_count, <<caller, race_id>>, 0))
               total_bet == WrapBalance(sum)
               pool == Get(total_pool, race_id, 0)
               winning_pool == Get(horse_pools, <<race_id, winner_horse>>, 0)
           IN  IF total_bet = 0
               THEN [Err("NoWinningBets") EXCEPT !.overflow = Overflows(sum)]
               ELSE IF winning_pool = 0
               THEN [Err("NoWinningBets") EXCEPT !.overflow = Overflows(sum)]
               ELSE LET payout == PayoutOf(total_bet, pool, winning_pool)
                        claimed == MarkClaimed(caller, race_id, transfer_ok)
                        overflow == Overflows(sum) \/ Overflows(total_bet * pool)
                    IN  IF ~transfer_ok
                        THEN [result |-> "TransferFailed", value |-> 0,
                              payouts_claimed |-> claimed, transfer |-> Some(payout),
                              overflow |-> overflow]
                        ELSE [result |-> "Ok", value |-> payout,
                              payouts_claimed |-> claimed, transfer |-> Some(payout),
                              overflow |-> overflow]

\* the host's side of a claim: the transfer requested, the amount moved and the
\* payout returned to the caller, accumulated per (caller, race)
RecordClaim(caller, race_id, transfer_ok, out) ==
  IF ~IsSome(out.transfer) THEN paid
  ELSE LET p == Get(paid, <<caller, race_id>>, NoPaid)
       IN  Insert(paid, <<caller, race_id>>,
                  [returned |-> p.returned + out.value,
                   requests |-> p.requests + 1,
                   received |-> p.received
                                 + (IF transfer_ok THEN Unwrap(out.transfer) ELSE 0),
                   failed |-> p.failed + (IF transfer_ok THEN 0 ELSE 1)])

ClaimWinnings(caller, race_id, transfer_ok) ==
  LET out == claim_winnings(caller, race_id, transfer_ok)
  IN  /\ payouts_claimed' = out.payouts_claimed
      /\ paid' = RecordClaim(caller, race_id, transfer_ok, out)
      /\ UNCHANGED <<owner, races, current_race_id, horses, bet_count, bets,
                 total_pool, horse_pools, env>>

\* claim_winnings in a build with overflow checks, when its sum or its product
\* overflows: the call panics and the host reverts it
ClaimWinningsTrap(caller, race_id, transfer_ok) ==
  /\ claim_winnings(caller, race_id, transfer_ok).overflow
  /\ UNCHANGED <<storage, env, paid>>

\* ------------------------------------------------------------ environment
\* the chain produces blocks: block number and timestamp advance together
Tick(d) ==
  /\ block_number + d <= MaxBlock
  /\ block_number' = block_number + d
  /\ block_timestamp' = block_timestamp + d * MsPerBlock
  /\ UNCHANGED <<storage, paid>>

RECURSIVE SumOver(_, _)
SumOver(f, keys) ==
  IF keys = {} THEN 0
  ELSE LET k == CHOOSE x \in keys : TRUE
       IN  f[k] + SumOver(f, keys \ {k})

TotalBets == SumOver(bet_count, DOMAIN bet_count)

\* the scheduler asks to advance an Active race once per new block
AdvanceDue(race_id) ==
  (Contains(races, race_id) /\ races[race_id].status = "Active")
    => block_number > races[race_id].current_block

\* ------------------------------------------------------------------ Spec
\* all messages, two races, a scheduler that advances once per block
Next ==
  \/ current_race_id < MaxRaces /\ CreateRace /\ UNCHANGED last
  \/ \E caller \in Accounts, race_id \in RaceArgs :
       StartRace(caller, race_id) /\ UNCHANGED last
  \/ \E race_id \in RaceArgs :
       AdvanceDue(race_id) /\ UpdateRace(race_id) /\ UNCHANGED last
  \/ \E bettor \in Accounts, race_id \in RaceArgs, horse_id \in HorseArgs,
        amount \in AmountArgs :
       /\ PlaceBetChecks(race_id, horse_id, amount) = "Ok" => TotalBets < MaxBets
       /\ PlaceBet(bettor, race_id, horse_id, amount)
       /\ UNCHANGED last
  \/ \E caller \in Accounts, race_id \in RaceArgs, transfer_ok \in BOOLEAN :
       ClaimWinnings(caller, race_id, transfer_ok) /\ UNCHANGED last
  \/ \E d \in TickSteps : Tick(d) /\ UNCHANGED last

Spec == Init /\ [][Next]_vars

\* -------------------------------------------------------------- SpecRace
\* race ids the owner starts in SpecRace
StartArgs == {0}

\* the lifecycle alone: one race run with update_race called freely, so that
\* horses cross the finish line at different elapsed blocks
NextRace ==
  \/ current_race_id < MaxRaces /\ CreateRace /\ UNCHANGED last
  \/ \E caller \in Accounts, race_id \in StartArgs :
       StartRace(caller, race_id) /\ UNCHANGED last
  \/ \E race_id \in RaceArgs : UpdateRace(race_id) /\ UNCHANGED last
  \/ \E d \in TickSteps : Tick(d) /\ UNCHANGED last

SpecRace == Init /\ [][NextRace]_vars

\* -------------------------------------------------------------- SpecLive
\* update_race(race_id) would change the storage: the explicit form of
\* ENABLED <<UpdateRace(race_id)>>_vars, the call being deterministic
UpdateEnabled(race_id) ==
  \/ update_race(race_id).races # races
  \/ update_race(race_id).horses # horses

\* weak fairness of the scheduler's update_race(race_id) calls, written out:
\* WF_vars(A) is []<>(~ENABLED <<A>>_vars) \/ []<><<A>>_vars
UpdateFair(race_id) ==
  \/ []<>(~UpdateEnabled(race_id))
  \/ []<><<UpdateRace(race_id) /\ UNCHANGED last>>_vars

\* the lifecycle with a scheduler that keeps calling update_race for every race
\* id; the block number may advance or stand still
SpecLive ==
  /\ Init
  /\ [][NextRace]_vars
  /\ \A race_id \in RaceArgs : UpdateFair(race_id)

\* ------------------------------------------------------------- SpecCalls
\* race ids passed to the messages in SpecCalls
CallRaceArgs == {0, TOTAL_RACES}
\* horse ids and values passed to place_bet in SpecCalls
CallHorseArgs == {0, HORSES_PER_RACE}
CallAmountArgs == {0, 2}

\* every message call recorded with its inputs and its return, races created
\* up to the cap
NextCalls ==
  \/ /\ CreateRace
     /\ last' = Call("create_race", NoCaller, NoArg, NoArg, 0, create_race.result)
  \/ \E caller \in Accounts, race_id \in CallRaceArgs :
       /\ StartRace(caller, race_id)
       /\ last' = Call("start_race", caller, race_id, NoArg, 0,
                       start_race(caller, race_id).result)
  \/ \E race_id \in CallRaceArgs :
       /\ AdvanceDue(race_id)
       /\ UpdateRace(race_id)
       /\ last' = Call("update_race", NoCaller, race_id, NoArg, 0,
                       update_race(race_id).result)
  \/ \E bettor \in Accounts, race_id \in CallRaceArgs, horse_id \in CallHorseArgs,
        amount \in CallAmountArgs :
       /\ PlaceBetChecks(race_id, horse_id, amount) = "Ok" => TotalBets < MaxBets
       /\ PlaceBet(bettor, race_id, horse_id, amount)
       /\ last' = Call("place_bet", bettor, race_id, horse_id, amount,
                       place_bet(bettor, race_id, horse_id, amount).result)
  \/ \E caller \in Accounts, race_id \in CallRaceArgs, transfer_ok \in BOOLEAN :
       /\ ClaimWinnings(caller, race_id, transfer_ok)
       /\ last' = Call("claim_winnings", caller, race_id, NoArg, 0,
                       claim_winnings(caller, race_id, transfer_ok).result)
  \/ \E d \in TickSteps :
       /\ Tick(d)
       /\ last' = Call("tick", NoCaller, NoArg, NoArg, 0, "Ok")

SpecCalls == Init /\ [][NextCalls]_vars

\* -------------------------------------------------------------- SpecWide
\* values attached to place_bet in SpecWide: the least one and one whose
\* product with a pool holding further bets exceeds BalanceMax
WideAmountArgs == {1, BalanceModulus \div 16}
\* the one race of SpecWide
WideRaceArgs == {0}

\* the ledger with stakes that are large for the Balance width, every call
\* recorded; an overflowing claim_winnings wraps or panics, as the build decides
NextWide ==
  \/ /\ current_race_id \in WideRaceArgs
     /\ CreateRace
     /\ last' = Call("create_race", NoCaller, NoArg, NoArg, 0, create_race.result)
  \/ \E race_id \in WideRaceArgs :
       /\ StartRace(owner, race_id)
       /\ last' = Call("start_race", owner, race_id, NoArg, 0,
                       start_race(owner, race_id).result)
  \/ \E race_id \in WideRaceArgs :
       /\ AdvanceDue(race_id)
       /\ UpdateRace(race_id)
       /\ last' = Call("update_race", NoCaller, race_id, NoArg, 0,
                       update_race(race_id).result)
  \/ \E bettor \in Accounts, race_id \in WideRaceArgs, horse_id \in HorseArgs,
        amount \in WideAmountArgs :
       /\ PlaceBetChecks(race_id, horse_id, amount) = "Ok" => TotalBets < MaxBets
       /\ PlaceBet(bettor, race_id, horse_id, amount)
       /\ last' = Call("place_bet", bettor, race_id, horse_id, amount,
                       place_bet(bettor, race_id, horse_id, amount).result)
  \/ \E caller \in Accounts, race_id \in WideRaceArgs, transfer_ok \in BOOLEAN :
       /\ ClaimWinnings(caller, race_id, transfer_ok)
       /\ last' = Call("claim_winnings", caller, race_id, NoArg, 0,
                       claim_winnings(caller, race_id, transfer_ok).result)
  \/ \E caller \in Accounts, race_id \in WideRaceArgs, transfer_ok \in BOOLEAN :
       /\ ClaimWinningsTrap(caller, race_id, transfer_ok)
       /\ last' = Call("claim_winnings", caller, race_id, NoArg, 0, "Panic")
  \/ \E d \in TickSteps :
       /\ Tick(d)
       /\ last' = Call("tick", NoCaller, NoArg, NoArg, 0, "Ok")

SpecWide == Init /\ [][NextWide]_vars

\* ------------------------------------------------------------- SpecAccel
\* samples of the block number and of the timestamp per axis
MaxSamples == 9
\* block numbers and timestamps (ms) at which the race of SpecAccel is run
SampleBlocks == {i * 13 : i \in 0..MaxSamples}
SampleTimestamps == {i * 100003 : i \in 0..MaxSamples}

\* the contract after create_race and the owner's start_race of race 0, at a
\* sampled block and timestamp
InitAccel ==
  /\ owner = "owner"
  /\ block_number \in SampleBlocks
  /\ block_timestamp \in SampleTimestamps
  /\ races = Insert(EmptyMapping, 0,
                [NewRace(0) EXCEPT !.status = "Active",
                                   !.start_block = block_number,
                                   !.current_block = block_number])
  /\ current_race_id = 1
  /\ horses = InitHorses(EmptyMapping, 0, 0)
  /\ bet_count = EmptyMapping
  /\ bets = EmptyMapping
  /\ total_pool = EmptyMapping
  /\ horse_pools = EmptyMapping
  /\ payouts_claimed = EmptyMapping
  /\ last = Call("new", "owner", NoArg, NoArg, 0, "Ok")
  /\ paid = EmptyMapping

\* the progression engine alone: update_race applied to race 0 until it finishes
NextAccel == UpdateRace(0) /\ UNCHANGED last

SpecAccel == InitAccel /\ [][NextAccel]_vars

\* ======================================================== properties
HorseIds == 0 .. (HORSES_PER_RACE - 1)
RaceIds == 0 .. (TOTAL_RACES - 1)
Status(r) == IF Contains(races, r) THEN races[r].status ELSE "None"

\* the bets stored for race r, over all bettors and sequence numbers
BetKeys(bs, r) == {k \in DOMAIN bs : k[2] = r}
BetsOf(bs, r) == [k \in BetKeys(bs, r) |-> bs[k]]
BetAmounts(r) == [k \in BetKeys(bets, r) |-> bets[k].amount]
HorsePools(hp, r) == [h \in HorseIds |-> Get(hp, <<r, h>>, 0)]

\* what bettor c has staked on horse h of race r, from the stored Bet records
Stake(c, r, h) ==
  LET keys == {k \in BetKeys(bets, r) : k[1] = c /\ bets[k].horse_id = h}
  IN  SumOver([k \in keys |-> bets[k].amount], keys)

PaidFor(c, r) == Get(paid, <<c, r>>, NoPaid)

\* C1: a race's status changes only Pending -> Active, by a successful
\* start_race, and Active -> Finished, by update_race reaching finish_race; no
\* step moves it backwards, skips Active, changes a Finished race or drops a race.
C1_StatusSteps ==
  [][\A r \in DOMAIN races :
       /\ r \in DOMAIN races'
       /\ races'[r].status # races[r].status =>
            \/ /\ races[r].status = "Pending"
               /\ races'[r].status = "Active"
               /\ \E c \in Accounts : start_race(c, r).result = "Ok" /\ StartRace(c, r)
            \/ /\ races[r].status = "Active"
               /\ races'[r].status = "Finished"
               /\ update_race(r).result = "Ok"
               /\ UpdateRace(r)]_vars

\* one race has run Pending -> Active -> Finished while another is Active
C1_Witness ==
  \E r1, r2 \in DOMAIN races :
    /\ races[r1].status = "Finished"
    /\ races[r2].status = "Active"
    /\ TotalBets > 0

\* C2: for every race, total_pool equals the sum of its six horse pools and the
\* sum of the amounts of all Bet records stored for it; no pool exists for a
\* horse id outside 0..5.
C2_PoolConservation ==
  /\ \A r \in RaceIds :
       /\ Get(total_pool, r, 0) = SumOver(HorsePools(horse_pools, r), HorseIds)
       /\ Get(total_pool, r, 0) = SumOver(BetAmounts(r), BetKeys(bets, r))
  /\ \A k \in DOMAIN horse_pools : k[1] \in RaceIds /\ k[2] \in HorseIds
  /\ DOMAIN total_pool \subseteq RaceIds

\* a race holding bets of two bettors on two horses, two of them on one horse
C2_Witness ==
  \E r \in RaceIds :
    /\ Get(total_pool, r, 0) = 3
    /\ Get(horse_pools, <<r, 0>>, 0) = 2
    /\ Get(horse_pools, <<r, 1>>, 0) = 1
    /\ \A c \in Accounts : Get(bet_count, <<c, r>>, 0) > 0

\* C3: per (bettor, race) at most one claim_winnings call requests a transfer or
\* returns a payout; once one has, every claim_winnings call by that bettor for
\* that race fails AlreadyClaimed and requests no transfer.
C3_ClaimOnce ==
  \A c \in Accounts, r \in RaceArgs :
    /\ PaidFor(c, r).requests <= 1
    /\ PaidFor(c, r).requests = 1 =>
         \A ok \in BOOLEAN :
           /\ claim_winnings(c, r, ok).result = "AlreadyClaimed"
           /\ ~IsSome(claim_winnings(c, r, ok).transfer)
           /\ claim_winnings(c, r, ok).payouts_claimed = payouts_claimed

\* a claim has returned a payout to a bettor
C3_Witness ==
  \E c \in Accounts, r \in RaceArgs :
    PaidFor(c, r).returned > 0 /\ PaidFor(c, r).received = PaidFor(c, r).returned

\* C4: for every race, the payouts returned to all bettors sum to at most
\* total_pool(race), and nothing is returned before the race is Finished.
C4_PayoutsWithinPool ==
  \A r \in RaceIds :
    LET returned == SumOver([c \in Accounts |-> PaidFor(c, r).returned], Accounts)
    IN  /\ returned <= Get(total_pool, r, 0)
        /\ Status(r) # "Finished" => returned = 0

\* both bettors have been paid and the division left a remainder in the pool
C4_Witness ==
  \E r \in RaceIds :
    /\ \A c \in Accounts : PaidFor(c, r).returned > 0
    /\ SumOver([c \in Accounts |-> PaidFor(c, r).returned], Accounts)
         < Get(total_pool, r, 0)

C6_BettingClosed ==
  [][/\ (/\ last'.op = "place_bet"
         /\ Contains(races, last'.race_id)
         /\ races[last'.race_id].status # "Pending")
        => /\ last'.result = "BettingClosed"
           /\ UNCHANGED <<bets, bet_count, total_pool, horse_pools>>
     /\ \A r \in DOMAIN races :
          races[r].status # "Pending" =>
            /\ BetsOf(bets', r) = BetsOf(bets, r)
            /\ \A c \in Accounts :
                 Get(bet_count', <<c, r>>, 0) = Get(bet_count, <<c, r>>, 0)
            /\ Get(total_pool', r, 0) = Get(total_pool, r, 0)
            /\ HorsePools(horse_pools', r) = HorsePools(horse_pools, r)]_vars

\* a place_bet naming an invalid horse and carrying no value was refused as
\* BettingClosed on a Finished race that holds a bet
C6_Witness ==
  /\ last.op = "place_bet"
  /\ last.result = "BettingClosed"
  /\ last.horse_id >= HORSES_PER_RACE
  /\ last.amount = 0
  /\ Status(last.race_id) = "Finished"
  /\ Get(total_pool, last.race_id, 0) > 0

\* C7: a Finished race's rankings hold every horse id 0..5 exactly once and its
\* winner is rankings[0].
C7_RankingPermutation ==
  \A r \in DOMAIN races :
    races[r].status = "Finished" =>
      /\ Len(races[r].rankings) = HORSES_PER_RACE
      /\ {races[r].rankings[i] : i \in 1..Len(races[r].rankings)} = HorseIds
      /\ races[r].winner = Some(races[r].rankings[1])

\* a race finished by the time limit with some horses over the line and some not
C7_Witness ==
  \E r \in DOMAIN races :
    /\ races[r].status = "Finished"
    /\ \E h \in HorseIds : horses[<<r, h>>].finished
    /\ \E h \in HorseIds : ~horses[<<r, h>>].finished

\* a race finished because every horse crossed the line
C7_WitnessAllCrossed ==
  \E r \in DOMAIN races :
    /\ races[r].status = "Finished"
    /\ \A h \in HorseIds : horses[<<r, h>>].finished

\* horse a is ranked before horse b by the order the rankings are stated to have
RankedBefore(a, b) ==
  \/ a.finished /\ ~b.finished
  \/ /\ a.finished /\ b.finished
     /\ \/ Unwrap(a.finish_time) < Unwrap(b.finish_time)
        \/ Unwrap(a.finish_time) = Unwrap(b.finish_time) /\ a.id < b.id
  \/ /\ ~a.finished /\ ~b.finished
     /\ \/ a.position > b.position
        \/ a.position = b.position /\ a.id < b.id

\* C8: in a Finished race's rankings every finished horse precedes every
\* unfinished one, finished horses are in ascending finish time then ascending
\* id, unfinished horses in descending position then ascending id.
C8_RankingOrder ==
  \A r \in DOMAIN races :
    races[r].status = "Finished" =>
      \A i, j \in 1..Len(races[r].rankings) :
        i < j => RankedBefore(horses[<<r, races[r].rankings[i]>>],
                              horses[<<r, races[r].rankings[j]>>])

\* a Finished race with two finish times, two horses sharing a finish time and
\* two unfinished horses sharing a position
C8_Witness ==
  \E r \in DOMAIN races :
    /\ races[r].status = "Finished"
    /\ \E a, b \in HorseIds :
         /\ horses[<<r, a>>].finished /\ horses[<<r, b>>].finished
         /\ horses[<<r, a>>].finish_time # horses[<<r, b>>].finish_time
    /\ \E a, b \in HorseIds :
         /\ a # b /\ horses[<<r, a>>].finished /\ horses[<<r, b>>].finished
         /\ horses[<<r, a>>].finish_time = horses[<<r, b>>].finish_time
    /\ \E a, b \in HorseIds :
         /\ a # b /\ ~horses[<<r, a>>].finished /\ ~horses[<<r, b>>].finished
         /\ horses[<<r, a>>].position = horses[<<r, b>>].position

\* C9: a create_race, start_race, update_race or place_bet call that returns an
\* error leaves races, horses, race counter, bets, bet counts, pools and claim
\* records as they were.
C9_ErrorsChangeNothing ==
  [][(/\ last'.op \in {"create_race", "start_race", "update_race", "place_bet"}
      /\ last'.result # "Ok")
       => UNCHANGED <<storage, paid>>]_vars

\* update_race was refused on a Finished race that holds a bet
C9_Witness ==
  /\ last.op = "update_race"
  /\ last.result = "RaceNotActive"
  /\ Status(last.race_id) = "Finished"
  /\ TotalBets > 0

\* C10: after a claim_winnings whose transfer failed, the claim record of
\* (caller, race) is set, nothing was returned or moved to the caller, and every
\* claim_winnings by that caller for that race fails AlreadyClaimed and requests
\* no transfer; a claim passing its checks with a failing transfer returns
\* TransferFailed with the record set.
C10_FailedTransferForfeits ==
  \A c \in Accounts, r \in RaceArgs :
    /\ PaidFor(c, r).failed > 0 =>
         /\ Get(payouts_claimed, <<c, r>>, FALSE)
         /\ PaidFor(c, r).received = 0
         /\ PaidFor(c, r).returned = 0
         /\ \A ok \in BOOLEAN :
              /\ claim_winnings(c, r, ok).result = "AlreadyClaimed"
              /\ ~IsSome(claim_winnings(c, r, ok).transfer)
    /\ IsSome(claim_winnings(c, r, FALSE).transfer) =>
         /\ claim_winnings(c, r, FALSE).result = "TransferFailed"
         /\ Get(claim_winnings(c, r, FALSE).payouts_claimed, <<c, r>>, FALSE)

\* a bettor's transfer has failed while the other bettor was paid
C10_Witness ==
  \E c, d \in Accounts, r \in RaceArgs :
    /\ PaidFor(c, r).failed = 1
    /\ PaidFor(d, r).received > 0

\* C11: a start_race call by a caller other than the owner returns Unauthorized
\* for every race id and changes nothing; a race leaves Pending only by a
\* start_race call of the owner for that race that returns Ok.
C11_OwnerOnlyStart ==
  [][/\ (last'.op = "start_race" /\ last'.caller # owner)
        => /\ last'.result = "Unauthorized"
           /\ UNCHANGED <<storage, paid>>
     /\ \A r \in DOMAIN races :
          (races[r].status = "Pending" /\ races'[r].status # "Pending")
            => /\ last'.op = "start_race"
               /\ last'.caller = owner
               /\ last'.race_id = r
               /\ last'.result = "Ok"]_vars

\* a caller other than the owner was refused on a Finished race
C11_Witness ==
  /\ last.op = "start_race"
  /\ last.caller # owner
  /\ last.result = "Unauthorized"
  /\ Status(last.race_id) = "Finished"

\* a caller other than the owner was refused on a race id that does not exist
C11_WitnessNoRace ==
  /\ last.op = "start_race"
  /\ last.caller # owner
  /\ last.result = "Unauthorized"
  /\ ~Contains(races, last.race_id)
  /\ current_race_id = TOTAL_RACES

\* C12: create_race returns Ok exactly while the race counter is below
\* TOTAL_RACES and MaxRacesReached otherwise; an Ok call returns the next id in
\* 0,1,2,..., adds that race as Pending with its six horses at position 0, not
\* finished, and touches no other race or horse; the counter equals the number of
\* races and never exceeds TOTAL_RACES.
C12_CreateRaceCap ==
  /\ [](/\ current_race_id <= TOTAL_RACES
        /\ DOMAIN races = 0 .. (current_race_id - 1)
        /\ DOMAIN horses = (DOMAIN races) \X HorseIds)
  /\ [][last'.op = "create_race" =>
          IF current_race_id < TOTAL_RACES
          THEN /\ last'.result = "Ok"
               /\ create_race.value = Cardinality(DOMAIN races)
               /\ current_race_id' = current_race_id + 1
               /\ DOMAIN races' = (DOMAIN races) \cup {create_race.value}
               /\ races'[create_race.value].id = create_race.value
               /\ races'[create_race.value].status = "Pending"
               /\ races'[create_race.value].winner = None
               /\ races'[create_race.value].rankings = <<>>
               /\ \A h \in HorseIds :
                    /\ horses'[<<create_race.value, h>>].id = h
                    /\ horses'[<<create_race.value, h>>].position = 0
                    /\ ~horses'[<<create_race.value, h>>].finished
                    /\ horses'[<<create_race.value, h>>].finish_time = None
               /\ \A r \in DOMAIN races : races'[r] = races[r]
               /\ \A k \in DOMAIN horses : horses'[k] = horses[k]
          ELSE /\ last'.result = "MaxRacesReached"
               /\ UNCHANGED <<storage, paid>>]_vars

\* create_race was refused at the cap, after an earlier race had run to Finished
C12_Witness ==
  /\ last.op = "create_race"
  /\ last.result = "MaxRacesReached"
  /\ current_race_id = TOTAL_RACES
  /\ Status(0) = "Finished"
  /\ Status(TOTAL_RACES - 1) = "Pending"

\* the race is Active and its elapsed blocks have reached the race duration
TimeLimitReached(r) ==
  /\ Contains(races, r)
  /\ races[r].status = "Active"
  /\ block_number - races[r].start_block >= RACE_DURATION_BLOCKS

\* C13: update_race on an Active race whose elapsed blocks have reached
\* RACE_DURATION_BLOCKS returns Ok and leaves the race Finished and every horse
\* record as it was, the rankings ordering those unchanged records; and any step
\* that changes such a race is that one: it finishes the race and moves no horse.
C13_TimeLimitFinish ==
  /\ [](\A r \in RaceIds :
          TimeLimitReached(r) =>
            LET out == update_race(r)
                rk == out.races[r].rankings
            IN  /\ out.result = "Ok"
                /\ out.horses = horses
                /\ out.races[r].status = "Finished"
                /\ Len(rk) = HORSES_PER_RACE
                /\ \A i, j \in 1..Len(rk) :
                     i < j => RankedBefore(horses[<<r, rk[i]>>], horses[<<r, rk[j]>>]))
  /\ [][\A r \in RaceIds :
          (TimeLimitReached(r) /\ races'[r] # races[r])
            => /\ races' = update_race(r).races
               /\ races'[r].status = "Finished"
               /\ horses' = horses]_vars

\* a race was finished by the time limit, some horses over the line and some
\* short of it, blocks after its last progression step
C13_Witness ==
  \E r \in DOMAIN races :
    /\ races[r].status = "Finished"
    /\ block_number - races[r].start_block >= RACE_DURATION_BLOCKS
    /\ races[r].current_block < block_number
    /\ \E h \in HorseIds : horses[<<r, h>>].finished
    /\ \E h \in HorseIds : ~horses[<<r, h>>].finished /\ horses[<<r, h>>].position > 0

\* C14: every horse's position is within 0..FINISH_LINE and never decreases;
\* finished holds exactly when the position is FINISH_LINE and exactly when a
\* finish time is recorded; a finished horse's record never changes again.
C14_HorseInvariants ==
  /\ [](\A k \in DOMAIN horses :
          /\ horses[k].position \in 0..FINISH_LINE
          /\ horses[k].finished <=> horses[k].position = FINISH_LINE
          /\ horses[k].finished <=> IsSome(horses[k].finish_time))
  /\ [][\A k \in DOMAIN horses :
          /\ k \in DOMAIN horses'
          /\ horses'[k].position >= horses[k].position
          /\ horses[k].finished => horses'[k] = horses[k]]_vars

\* a horse crossed the line blocks after another horse of its race had finished
C14_Witness ==
  \E r \in DOMAIN races : \E a, b \in HorseIds :
    /\ horses[<<r, a>>].finished /\ horses[<<r, b>>].finished
    /\ Unwrap(horses[<<r, a>>].finish_time) < Unwrap(horses[<<r, b>>].finish_time)
    /\ horses[<<r, a>>].position = FINISH_LINE

\* in a step that moves a horse of race r, every horse of r that was unfinished
\* advances by an acceleration within lo..hi, or reaches the line by one
AdvancesWithin(lo, hi) ==
  \A r \in DOMAIN races :
    (\E h \in HorseIds : horses'[<<r, h>>] # horses[<<r, h>>]) =>
      \A h \in HorseIds :
        LET before == horses[<<r, h>>]
            after == horses'[<<r, h>>]
        IN  ~before.finished =>
              IF after.finished
              THEN /\ after.position = FINISH_LINE
                   /\ before.position + hi >= FINISH_LINE
              ELSE (after.position - before.position) \in lo..hi

\* C15 as stated: every progression step advances each unfinished horse by an
\* acceleration in [15, 34].
C15_Original == [][AdvancesWithin(15, 34)]_vars

\* C15, amended: every progression step advances each unfinished horse by an
\* acceleration in [15, 35] (15 + v mod 21), for every sampled block number,
\* timestamp and horse id.
C15_AccelerationRange == [][AdvancesWithin(15, 35)]_vars

\* after the first step of a race one horse has advanced by 35, the top of the
\* range, and another by less
C15_Witness ==
  /\ races[0].status = "Active"
  /\ \E h \in HorseIds : horses[<<0, h>>].position = 35
  /\ \E h \in HorseIds : horses[<<0, h>>].position \in 15..34

\* C16: no step changes a Finished race: its record (status, winner, rankings,
\* start and current block) and its six horse records stay as they are, and
\* update_race and start_race on it return errors.
C16_FinishedFrozen ==
  /\ [](\A r \in DOMAIN races :
          races[r].status = "Finished" =>
            /\ update_race(r).result = "RaceNotActive"
            /\ \A c \in Accounts : start_race(c, r).result # "Ok")
  /\ [][\A r \in DOMAIN races :
          races[r].status = "Finished" =>
            /\ races'[r] = races[r]
            /\ \A h \in HorseIds : horses'[<<r, h>>] = horses[<<r, h>>]]_vars

\* a Finished race on which a claim was paid, beside a race that was started
\* once the first had reached its time limit
C16_Witness ==
  \E r1, r2 \in DOMAIN races :
    /\ races[r1].status = "Finished"
    /\ races[r2].status = "Active"
    /\ races[r2].start_block >= races[r1].start_block + RACE_DURATION_BLOCKS
    /\ \E c \in Accounts : PaidFor(c, r1).returned > 0

\* C17: with update_race called again and again for it and a block number that
\* never decreases, every Active race eventually becomes Finished.
C17_ActiveFinishes ==
  \A r \in RaceArgs : (Status(r) = "Active") ~> (Status(r) = "Finished")

\* a race finished because every horse crossed the line, before its time limit
C17_Witness ==
  \E r \in DOMAIN races :
    /\ races[r].status = "Finished"
    /\ \A h \in HorseIds : horses[<<r, h>>].finished
    /\ block_number - races[r].start_block < RACE_DURATION_BLOCKS

\* C18: between calls, an Active race's rankings hold no horse id twice, hold at
\* most HORSES_PER_RACE ids, each the id of a finished horse of the race, and
\* are empty while no horse has finished.
C18_ActiveRankings ==
  \A r \in DOMAIN races :
    races[r].status = "Active" =>
      LET rk == races[r].rankings
      IN  /\ Len(rk) <= HORSES_PER_RACE
          /\ \A i, j \in 1..Len(rk) : i # j => rk[i] # rk[j]
          /\ \A i \in 1..Len(rk) : rk[i] \in HorseIds /\ horses[<<r, rk[i]>>].finished
          /\ (\A h \in HorseIds : ~horses[<<r, h>>].finished) => rk = <<>>

\* an Active race whose rankings hold horses that crossed in two different
\* steps, while other horses are still running
C18_Witness ==
  \E r \in DOMAIN races :
    /\ races[r].status = "Active"
    /\ Len(races[r].rankings) >= 2
    /\ \E i, j \in 1..Len(races[r].rankings) :
         horses[<<r, races[r].rankings[i]>>].finish_time
           # horses[<<r, races[r].rankings[j]>>].finish_time
    /\ \E h \in HorseIds : ~horses[<<r, h>>].finished

\* C19: pool totals and the payout product never wrap: a place_bet that
\* returns Ok stores total_pool + amount and horse_pool + amount exactly, and a
\* claim_winnings that returns Ok returns floor(S * T / W) computed exactly
\* from the caller's stake S on the winner, total_pool T and the winner's pool
\* W; otherwise the call fails.
C19_NoSilentWrap ==
  [][/\ (last'.op = "place_bet" /\ last'.result = "Ok") =>
          /\ Get(total_pool', last'.race_id, 0)
               = Get(total_pool, last'.race_id, 0) + last'.amount
          /\ Get(horse_pools', <<last'.race_id, last'.horse_id>>, 0)
               = Get(horse_pools, <<last'.race_id, last'.horse_id>>, 0) + last'.amount
     /\ (last'.op = "claim_winnings" /\ last'.result = "Ok") =>
          LET c == last'.caller
              r == last'.race_id
              w == Unwrap(races[r].winner)
              S == Stake(c, r, w)
              T == Get(total_pool, r, 0)
              W == Get(horse_pools, <<r, w>>, 0)
          IN  Get(paid', <<c, r>>, NoPaid).returned - PaidFor(c, r).returned
                = (S * T) \div W]_vars

\* C20: in every state each horse pool is at most its race's total_pool and
\* each bettor's stake on a horse at most that horse's pool; and every payout
\* returned by a claim_winnings that returns Ok is at least the caller's stake
\* on the winner and at most total_pool.
C20_PayoutBounds ==
  /\ [](\A r \in RaceIds, h \in HorseIds :
          /\ Get(horse_pools, <<r, h>>, 0) <= Get(total_pool, r, 0)
          /\ \A c \in Accounts : Stake(c, r, h) <= Get(horse_pools, <<r, h>>, 0))
  /\ [][(last'.op = "claim_winnings" /\ last'.result = "Ok") =>
          LET c == last'.caller
              r == last'.race_id
              payout == Get(paid', <<c, r>>, NoPaid).returned - PaidFor(c, r).returned
          IN  /\ Stake(c, r, Unwrap(races[r].winner)) <= payout
              /\ payout <= Get(total_pool, r, 0)]_vars

====
